---- MODULE Spec2Model ----
(***************************************************************************)
(* Blizzard basin (src/challenges/day24.rs): the tile grid with its        *)
(* analytic future_tile, the renderer and parser, and the time-expanded    *)
(* A* search that Level::solve runs over (x, y, t).                        *)
(***************************************************************************)
EXTENDS Integers, Sequences, FiniteSets, TLC

VARIABLES
    input,      \* the text handed to Level::parse
    level,      \* the parsed Level: tiles, width, height, enter, exit
    now,        \* the time of the frame being shown (print_solution's i)
    sim,        \* the movers, advanced one cell per time unit
    frame,      \* the text of at(now).to_ascii(), <<>> before it is rendered
    reparsed,   \* Level::parse of frame, NoLevel before it is parsed
    pc,         \* print_solution: "start" before solve, "print" while it shows the path
    result      \* what solve came to: outcome, path, cost

vars == <<input, level, now, sim, frame, reparsed, pc, result>>

----------------------------------------------------------------------------
(* Bounds of the model *)

\* the interior holds at most MaxArea cells
MaxArea == 3
\* of which at most MaxObstacles are not '.'
MaxObstacles == 2
\* the frames shown run to time MaxTime
MaxTime == 6
\* the search is followed to time MaxT
MaxT == 7

----------------------------------------------------------------------------
(* Flags and the obstacle catalog *)

COLLIDES_FLAG == 128
NORTH_FLAG == 1
EAST_FLAG == 2
SOUTH_FLAG == 4
WEST_FLAG == 8

Bit(a, i) == (a \div (2 ^ i)) % 2

\* u8 & u8, bit by bit
BitAndTable ==
    [a \in 0..255 |-> [b \in 0..255 |->
        Bit(a, 0) * Bit(b, 0) + 2 * Bit(a, 1) * Bit(b, 1) + 4 * Bit(a, 2) * Bit(b, 2)
        + 8 * Bit(a, 3) * Bit(b, 3) + 16 * Bit(a, 4) * Bit(b, 4) + 32 * Bit(a, 5) * Bit(b, 5)
        + 64 * Bit(a, 6) * Bit(b, 6) + 128 * Bit(a, 7) * Bit(b, 7)]]

BitAnd(a, b) == BitAndTable[a][b]

\* u8 | u8
BitOr(a, b) == a + b - BitAnd(a, b)

EMPTY == [tile_char |-> ".", tile_flags |-> 0]
WALL == [tile_char |-> "#", tile_flags |-> COLLIDES_FLAG]
NORTH == [tile_char |-> "^", tile_flags |-> BitOr(COLLIDES_FLAG, NORTH_FLAG)]
EAST == [tile_char |-> ">", tile_flags |-> BitOr(COLLIDES_FLAG, EAST_FLAG)]
SOUTH == [tile_char |-> "v", tile_flags |-> BitOr(COLLIDES_FLAG, SOUTH_FLAG)]
WEST == [tile_char |-> "<", tile_flags |-> BitOr(COLLIDES_FLAG, WEST_FLAG)]

PARSABLE == <<EMPTY, WALL, NORTH, EAST, SOUTH, WEST>>

\* '\0', the char to_ascii fills its buffer with
NUL == "NUL"

----------------------------------------------------------------------------
(* Point *)

Point(x, y, t) == [x |-> x, y |-> y, t |-> t]

abs_diff(a, b) == IF a >= b THEN a - b ELSE b - a

distance_double(self, other) ==
    2 * (abs_diff(self.x, other.x) + abs_diff(self.y, other.y))

distance(self, other) == abs_diff(self.x, other.x) + abs_diff(self.y, other.y)

moves_nowait(self) ==
    <<Point(self.x + 1, self.y, self.t + 1), Point(self.x, self.y + 1, self.t + 1)>>
    \o (IF self.x > 0 THEN <<Point(self.x - 1, self.y, self.t + 1)>> ELSE <<>>)
    \o (IF self.y > 0 THEN <<Point(self.x, self.y - 1, self.t + 1)>> ELSE <<>>)

moves_south_keeps_t(self) ==
    <<Point(self.x, self.y, self.t + 1),
      Point(self.x + 1, self.y, self.t + 1),
      Point(self.x, self.y + 1, self.t)>>
    \o (IF self.x > 0 THEN <<Point(self.x - 1, self.y, self.t + 1)>> ELSE <<>>)
    \o (IF self.y > 0 THEN <<Point(self.x, self.y - 1, self.t + 1)>> ELSE <<>>)

\* the candidate next states, in the order of the Vec; every move costs 1
moves(self) ==
    <<Point(self.x, self.y, self.t + 1),
      Point(self.x + 1, self.y, self.t + 1),
      Point(self.x, self.y + 1, self.t + 1)>>
    \o (IF self.x > 0 THEN <<Point(self.x - 1, self.y, self.t + 1)>> ELSE <<>>)
    \o (IF self.y > 0 THEN <<Point(self.x, self.y - 1, self.t + 1)>> ELSE <<>>)

----------------------------------------------------------------------------
(* Level *)

\* Level::new
new(width, height) ==
    [tiles |-> [i \in 1..(width * height) |-> 0],
     width |-> width,
     height |-> height,
     enter |-> Point(0, 0, 0),
     exit |-> Point(0, 0, 0)]

NoLevel == new(0, 0)

\* the index get_tile and set_tile use, 0-based: (y * width) + x
tile_index(l, x, y) == (y * l.width) + x

\* an index outside the Vec panics
index_panics(l, x, y) == tile_index(l, x, y) >= Len(l.tiles)

\* what a read that panics stands for in the model
Panic == -1

get_tile(l, x, y) ==
    IF index_panics(l, x, y) THEN Panic ELSE l.tiles[tile_index(l, x, y) + 1]

on_border(l, x, y) == x = 0 \/ y = 0 \/ x = l.width - 1 \/ y = l.height - 1

\* the tiles future_tile reads for (x, y, t), as <<x, y>> in reading order
future_tile_reads(l, x, y, t) ==
    IF on_border(l, x, y) THEN <<<<x, y>>>>
    ELSE
        LET u == x - 1
            v == y - 1
            inner_width == l.width - 2
            inner_height == l.height - 2
            u_mod == t % inner_width
            v_mod == t % inner_height
            north_y == (inner_height + inner_height + v + v_mod) % inner_height
            south_y == (inner_height + inner_height + v - v_mod) % inner_height
            east_x == (inner_width + inner_width + u - u_mod) % inner_width
            west_x == (inner_width + inner_width + u + u_mod) % inner_width
        IN  <<<<x, south_y + 1>>, <<x, north_y + 1>>, <<west_x + 1, y>>, <<east_x + 1, y>>>>

\* reading the tile of (x, y) panics
reads_panic(l, r) == \E i \in DOMAIN r : index_panics(l, r[i][1], r[i][2])

future_tile_panics(l, x, y, t) == reads_panic(l, future_tile_reads(l, x, y, t))

future_tile_swapped(l, x, y, t) ==
    LET r == future_tile_reads(l, x, y, t)
    IN  IF reads_panic(l, r) THEN Panic
        ELSE IF on_border(l, x, y) THEN get_tile(l, x, y)
        ELSE
            LET south_bits == BitAnd(get_tile(l, r[2][1], r[2][2]), SOUTH_FLAG)
                north_bits == BitAnd(get_tile(l, r[1][1], r[1][2]), NORTH_FLAG)
                west_bits == BitAnd(get_tile(l, r[3][1], r[3][2]), WEST_FLAG)
                east_bits == BitAnd(get_tile(l, r[4][1], r[4][2]), EAST_FLAG)
                tile == north_bits + east_bits + south_bits + west_bits
            IN  IF tile > 0 THEN tile + COLLIDES_FLAG ELSE 0

future_tile_outer_mod(l, x, y, t) ==
    IF on_border(l, x, y) THEN get_tile(l, x, y)
    ELSE
        LET u == x - 1
            v == y - 1
            inner_width == l.width - 2
            inner_height == l.height - 2
            u_mod == t % l.width
            v_mod == t % l.height
            north_y == (inner_height + inner_height + inner_height + v + v_mod) % inner_height
            south_y == (inner_height + inner_height + inner_height + v - v_mod) % inner_height
            east_x == (inner_width + inner_width + inner_width + u - u_mod) % inner_width
            west_x == (inner_width + inner_width + inner_width + u + u_mod) % inner_width
            south_bits == BitAnd(get_tile(l, x, south_y + 1), SOUTH_FLAG)
            north_bits == BitAnd(get_tile(l, x, north_y + 1), NORTH_FLAG)
            west_bits == BitAnd(get_tile(l, west_x + 1, y), WEST_FLAG)
            east_bits == BitAnd(get_tile(l, east_x + 1, y), EAST_FLAG)
            tile == north_bits + east_bits + south_bits + west_bits
        IN  IF tile > 0 THEN tile + COLLIDES_FLAG ELSE 0

\* the flags of (x, y) at time t; Panic when a read falls outside the Vec. The
\* four masked reads hold distinct bits, so their | is their sum.
future_tile(l, x, y, t) ==
    LET r == future_tile_reads(l, x, y, t)
    IN  IF reads_panic(l, r) THEN Panic
        ELSE IF on_border(l, x, y) THEN get_tile(l, x, y)
        ELSE
            LET south_bits == BitAnd(get_tile(l, r[1][1], r[1][2]), SOUTH_FLAG)
                north_bits == BitAnd(get_tile(l, r[2][1], r[2][2]), NORTH_FLAG)
                west_bits == BitAnd(get_tile(l, r[3][1], r[3][2]), WEST_FLAG)
                east_bits == BitAnd(get_tile(l, r[4][1], r[4][2]), EAST_FLAG)
                tile == north_bits + east_bits + south_bits + west_bits
            IN  IF tile > 0 THEN tile + COLLIDES_FLAG ELSE 0

\* of a point whose tile can be read
validate_point(l, point) ==
    BitAnd(future_tile(l, point.x, point.y, point.t), COLLIDES_FLAG) # COLLIDES_FLAG

is_exit_point(l, point) == distance(point, l.exit) = 0

\* successors panics when validating one of the moves panics
successors_panics(l, point) ==
    LET m == moves(point)
    IN  \E i \in DOMAIN m : future_tile_panics(l, m[i].x, m[i].y, m[i].t)

successors(l, point) ==
    SelectSeq(moves(point), LAMBDA p : validate_point(l, p))

\* Level::at: the grid as it stands at time t
at(l, t) ==
    [l EXCEPT !.tiles =
        SubSeq([i \in 1..(l.width * l.height) |->
                    future_tile(l, (i - 1) % l.width, (i - 1) \div l.width, t)],
               1, l.width * l.height)]

----------------------------------------------------------------------------
(* Rendering *)

\* the match of to_ascii: what the cell shows after one more catalog entry
overlay(shown, tile_char) ==
    CASE shown \in {".", "#"} -> tile_char
      [] shown \in {"^", ">", "V", "<"} -> "2"
      [] shown = "2" -> "3"
      [] shown = "3" -> "4"
      [] OTHER -> "?"

RECURSIVE render_tile_from(_, _, _)
render_tile_from(tile, k, shown) ==
    IF k > Len(PARSABLE) THEN shown
    ELSE render_tile_from(tile, k + 1,
            IF BitAnd(tile, PARSABLE[k].tile_flags) = PARSABLE[k].tile_flags
            THEN overlay(shown, PARSABLE[k].tile_char)
            ELSE shown)

\* the char to_ascii writes for one tile
render_tile(tile) == render_tile_from(tile, 1, ".")

RECURSIVE to_ascii_from(_, _, _, _)
to_ascii_from(l, i, offset, buf) ==
    IF i >= Len(l.tiles) THEN buf
    ELSE
        LET str_i == i + offset
            shown == [buf EXCEPT ![str_i + 1] = render_tile(l.tiles[i + 1])]
            ends_row == i > 0 /\ (i + 1) % l.width = 0 /\ i < Len(l.tiles) - 1
        IN  IF ends_row
            THEN to_ascii_from(l, i + 1, offset + 1, [shown EXCEPT ![str_i + 2] = "\n"])
            ELSE to_ascii_from(l, i + 1, offset, shown)

\* Level::to_ascii: a buffer of width * height + height chars
to_ascii(l) ==
    to_ascii_from(l, 0, 0, [k \in 1..(l.width * l.height + l.height) |-> NUL])

----------------------------------------------------------------------------
(* Parsing *)

RECURSIVE lines_from(_, _, _)
lines_from(text, k, cur) ==
    IF k > Len(text) THEN (IF cur = <<>> THEN <<>> ELSE <<cur>>)
    ELSE IF text[k] = "\n" THEN <<cur>> \o lines_from(text, k + 1, <<>>)
    ELSE lines_from(text, k + 1, Append(cur, text[k]))

\* str::lines: split at '\n', the final line ending optional
lines(text) == lines_from(text, 1, <<>>)

Err == -1

\* the 0-based index of the first '.', or Err
find_first_empty(line) ==
    IF \E i \in DOMAIN line : line[i] = "."
    THEN (CHOOSE i \in DOMAIN line : line[i] = "." /\ \A j \in 1..(i - 1) : line[j] # ".") - 1
    ELSE Err

\* the flags parse stores for a char; a char outside the catalog leaves the tile at 0
char_flags(c) ==
    IF \E k \in DOMAIN PARSABLE : PARSABLE[k].tile_char = c
    THEN PARSABLE[CHOOSE k \in DOMAIN PARSABLE : PARSABLE[k].tile_char = c].tile_flags
    ELSE 0

max_len(ls) ==
    IF ls = <<>> THEN 0
    ELSE CHOOSE n \in {Len(ls[i]) : i \in DOMAIN ls} : \A i \in DOMAIN ls : Len(ls[i]) <= n

\* parse unwraps find_first_empty of the first and of the last line
parse_panics(text) ==
    LET ls == lines(text)
    IN  ls # <<>> /\ (find_first_empty(ls[1]) = Err \/ find_first_empty(ls[Len(ls)]) = Err)

\* Level::parse of a text whose first and last line hold a '.'
parse(text) ==
    LET ls == lines(text)
        width == max_len(ls)
        height == Len(ls)
    IN  [tiles |-> [i \in 1..(width * height) |->
                        LET x == (i - 1) % width
                            y == (i - 1) \div width
                        IN  IF x < Len(ls[y + 1]) THEN char_flags(ls[y + 1][x + 1]) ELSE 0],
         width |-> width,
         height |-> height,
         enter |-> Point(IF height > 0 THEN find_first_empty(ls[1]) ELSE 0, 0, 0),
         exit |-> IF height > 0
                  THEN Point(find_first_empty(ls[height]), height - 1, 0)
                  ELSE Point(0, 0, 0)]

----------------------------------------------------------------------------
(* Input texts: a ring of '#' with one '.' in the first and one in the last
   row, around an interior of catalog chars *)

ObstacleChars == {"#", "^", ">", "v", "<"}

InnerCells(iw, ih) == (1..iw) \X (1..ih)

row_text(w, y, h, e, x, f) ==
    [c \in 1..w |->
        IF y = 0 THEN (IF c - 1 = e THEN "." ELSE "#")
        ELSE IF y = h - 1 THEN (IF c - 1 = x THEN "." ELSE "#")
        ELSE IF c = 1 \/ c = w THEN "#"
        ELSE IF <<c - 1, y>> \in DOMAIN f THEN f[<<c - 1, y>>] ELSE "."]

RECURSIVE text_from(_, _, _, _, _, _)
text_from(w, h, e, x, f, y) ==
    IF y = h - 1 THEN row_text(w, y, h, e, x, f)
    ELSE row_text(w, y, h, e, x, f) \o <<"\n">> \o text_from(w, h, e, x, f, y + 1)

grid_text(w, h, e, x, f) == text_from(w, h, e, x, f, 0)

----------------------------------------------------------------------------
(* The movers, one cell per time unit *)

Dirs == {"N", "E", "S", "W"}

dir_flag(d) ==
    CASE d = "N" -> NORTH_FLAG [] d = "E" -> EAST_FLAG
      [] d = "S" -> SOUTH_FLAG [] d = "W" -> WEST_FLAG

Interior(l) == (1..(l.width - 2)) \X (1..(l.height - 2))

Cells(l) == (0..(l.width - 1)) \X (0..(l.height - 1))

movers_of(l) ==
    {[x |-> c[1], y |-> c[2], d |-> d] : c \in Interior(l), d \in Dirs}
    \cap {m \in [x : 1..(l.width - 2), y : 1..(l.height - 2), d : Dirs] :
            BitAnd(get_tile(l, m.x, m.y), dir_flag(m.d)) # 0}

advance(l, m) ==
    CASE m.d = "N" -> [m EXCEPT !.y = IF m.y = 1 THEN l.height - 2 ELSE m.y - 1]
      [] m.d = "S" -> [m EXCEPT !.y = IF m.y = l.height - 2 THEN 1 ELSE m.y + 1]
      [] m.d = "E" -> [m EXCEPT !.x = IF m.x = l.width - 2 THEN 1 ELSE m.x + 1]
      [] m.d = "W" -> [m EXCEPT !.x = IF m.x = 1 THEN l.width - 2 ELSE m.x - 1]

---------------------------------------------------------------------------------------------------------------------------------------------------
(* astar::astar, as Level::solve calls it *)

\* the parent of the start node (usize::MAX in the parents map)
NoParent == Point(0 - 1, 0 - 1, 0 - 1)

NoResult == [outcome |-> "unsolved", path |-> <<>>, cost |-> 0]

\* which of the cost holders with the smallest estimated cost the heap pops
TiePolicies == {"fifo", "lifo", "deep"}

min_estimate(to_see) ==
    CHOOSE e \in {to_see[i].estimated_cost : i \in DOMAIN to_see} :
        \A i \in DOMAIN to_see : e <= to_see[i].estimated_cost

pop_index(to_see, policy) ==
    LET best == {i \in DOMAIN to_see : to_see[i].estimated_cost = min_estimate(to_see)}
        deepest == {i \in best : \A j \in best : to_see[j].cost <= to_see[i].cost}
        first(S) == CHOOSE i \in S : \A j \in S : i <= j
        last(S) == CHOOSE i \in S : \A j \in S : j <= i
    IN  CASE policy = "fifo" -> first(best)
          [] policy = "lifo" -> last(best)
          [] policy = "deep" -> last(deepest)

remove_at(seq, k) == SubSeq(seq, 1, k - 1) \o SubSeq(seq, k + 1, Len(seq))

RECURSIVE reverse_path(_, _)
reverse_path(parents, node) ==
    IF parents[node].parent = NoParent THEN <<node>>
    ELSE Append(reverse_path(parents, parents[node].parent), node)

\* the for loop over the successors of node: a new node, or a cheaper way to a
\* known one, enters parents and the heap
RECURSIVE relax(_, _, _, _, _, _, _)
relax(l, succ, k, node, cost, to_see, parents) ==
    IF k > Len(succ) THEN [to_see |-> to_see, parents |-> parents]
    ELSE
        LET successor == succ[k]
            new_cost == cost + 1
            holder == [estimated_cost |-> new_cost + distance(l.exit, successor),
                       cost |-> new_cost,
                       node |-> successor]
            entry == [parent |-> node, cost |-> new_cost]
        IN  IF successor \notin DOMAIN parents
            THEN relax(l, succ, k + 1, node, cost,
                       Append(to_see, holder), (successor :> entry) @@ parents)
            ELSE IF parents[successor].cost > new_cost
            THEN relax(l, succ, k + 1, node, cost,
                       Append(to_see, holder), [parents EXCEPT ![successor] = entry])
            ELSE relax(l, succ, k + 1, node, cost, to_see, parents)

\* the while loop of astar; "beyond" when it is still searching past t = MaxT
RECURSIVE astar_loop(_, _, _, _)
astar_loop(l, policy, to_see, parents) ==
    IF to_see = <<>> THEN [outcome |-> "none", path |-> <<>>, cost |-> 0]
    ELSE
        LET k == pop_index(to_see, policy)
            holder == to_see[k]
            node == holder.node
            rest == remove_at(to_see, k)
        IN  IF is_exit_point(l, node)
            THEN [outcome |-> "found", path |-> reverse_path(parents, node),
                  cost |-> holder.cost]
            ELSE IF holder.cost > parents[node].cost
            THEN astar_loop(l, policy, rest, parents)
            ELSE IF node.t >= MaxT
            THEN [outcome |-> "beyond", path |-> <<>>, cost |-> 0]
            ELSE IF successors_panics(l, node)
            THEN [outcome |-> "panic", path |-> <<>>, cost |-> 0]
            ELSE LET st == relax(l, successors(l, node), 1, node, holder.cost, rest, parents)
                 IN  astar_loop(l, policy, st.to_see, st.parents)

\* Level::solve: astar from enter, with successors, the distance to exit, is_exit_point
solve(l, policy) ==
    astar_loop(l, policy,
               <<[estimated_cost |-> 0, cost |-> 0, node |-> l.enter]>>,
               (l.enter :> [parent |-> NoParent, cost |-> 0]))

-----
(* The grid over time: frames are rendered and read back *)

InitLevel(text) ==
    /\ input = text
    /\ level = parse(text)
    /\ now = 0
    /\ sim = movers_of(parse(text))
    /\ frame = <<>>
    /\ reparsed = NoLevel

Placements(iw, ih) ==
    UNION {[S -> ObstacleChars] :
             S \in {T \in SUBSET InnerCells(iw, ih) : Cardinality(T) <= MaxObstacles}}

\* interior width and height
Dims == {d \in (1..MaxArea) \X (1..MaxArea) : d[1] * d[2] <= MaxArea}

\* the entry above the first interior column, the exit below the last
Texts ==
    UNION {{grid_text(d[1] + 2, d[2] + 2, 1, d[1], f) : f \in Placements(d[1], d[2])}
           : d \in Dims}

Init ==
    /\ \E text \in Texts : InitLevel(text)
    /\ pc = "start"
    /\ result = NoResult

\* the next frame of the trace
Tick ==
    /\ now < MaxTime
    /\ now' = now + 1
    /\ sim' = {advance(level, m) : m \in sim}
    /\ frame' = <<>>
    /\ reparsed' = NoLevel
    /\ UNCHANGED <<input, level, pc, result>>

\* at(now).to_ascii(), as print_solution shows it
Render ==
    /\ frame = <<>>
    /\ frame' = to_ascii(at(level, now))
    /\ UNCHANGED <<input, level, now, sim, reparsed, pc, result>>

\* Level::parse of the frame
Reparse ==
    /\ frame # <<>>
    /\ reparsed = NoLevel
    /\ reparsed' = IF parse_panics(frame) THEN NoLevel ELSE parse(frame)
    /\ UNCHANGED <<input, level, now, sim, frame, pc, result>>

Next == Tick \/ Render \/ Reparse

Spec == Init /\ [][Next]_vars

----------------------------------------------------------------------------
(* print_solution: solve, then one frame for every point of the path *)

InitSolve ==
    /\ \E text \in Texts : InitLevel(text)
    /\ pc = "start"
    /\ result = NoResult

\* let (path, cost) = self.solve()
Solve ==
    /\ pc = "start"
    /\ \E policy \in TiePolicies : result' = solve(level, policy)
    /\ pc' = "print"
    /\ UNCHANGED <<input, level, now, sim, frame, reparsed>>

\* the frame of path[i]: at(i).to_ascii() with 'E' on the point
PrintFrame ==
    /\ pc = "print"
    /\ result.outcome = "found"
    /\ now < Len(result.path)
    /\ LET point == result.path[now + 1]
       IN  frame' = [to_ascii(at(level, now)) EXCEPT
                        ![point.y * (level.width + 1) + point.x + 1] = "E"]
    /\ now' = now + 1
    /\ UNCHANGED <<input, level, sim, reparsed, pc, result>>

NextSolve == Solve \/ PrintFrame

SolveSpec == InitSolve /\ [][NextSolve]_vars

----------------------------------------------------------------------------
(* What the claims are measured against *)

RECURSIVE gcd(_, _)
gcd(a, b) == IF b = 0 THEN a ELSE gcd(b, a % b)

lcm(a, b) == (a * b) \div gcd(a, b)

period(l) == lcm(l.width - 2, l.height - 2)

dir_bits(tile) == {d \in Dirs : BitAnd(tile, dir_flag(d)) # 0}

\* a wait or one orthogonal step, inside the grid, into a cell free at the new time
legal_move(l, p, q) ==
    /\ q.t = p.t + 1
    /\ abs_diff(p.x, q.x) + abs_diff(p.y, q.y) <= 1
    /\ q.x < l.width /\ q.y < l.height
    /\ validate_point(l, q)

\* the cell itself and its orthogonal neighbours inside the grid
around(l, c) ==
    {q \in {c, <<c[1] + 1, c[2]>>, <<c[1] - 1, c[2]>>, <<c[1], c[2] + 1>>, <<c[1], c[2] - 1>>} :
        q[1] >= 0 /\ q[1] < l.width /\ q[2] >= 0 /\ q[2] < l.height}

next_layer(l, layer, t) ==
    {c \in UNION {around(l, p) : p \in layer} : validate_point(l, Point(c[1], c[2], t + 1))}

\* the first time from t on at which a legal move sequence from layer stands on
\* the exit, MaxT + 1 when there is none up to MaxT
RECURSIVE earliest(_, _, _)
earliest(l, layer, t) ==
    IF <<l.exit.x, l.exit.y>> \in layer THEN t
    ELSE IF t >= MaxT \/ layer = {} THEN MaxT + 1
    ELSE earliest(l, next_layer(l, layer, t), t + 1)

min_arrival(l) == earliest(l, {<<l.enter.x, l.enter.y>>}, 0)

least(S) == CHOOSE n \in S : \A m \in S : n <= m

\* at time MaxT only the exit itself is at the exit in time
at_horizon(l) ==
    (<<l.exit.x, l.exit.y>> :> 0) @@ [c \in Cells(l) |-> MaxT + 1]

\* from later, the least numbers of moves at time t + 1, those at time t
step_back(l, t, later) ==
    (<<l.exit.x, l.exit.y>> :> 0) @@
    [c \in Cells(l) |->
        least({MaxT + 1} \cup
            {1 + later[q] : q \in {q \in around(l, c) :
                later[q] <= MaxT /\ validate_point(l, Point(q[1], q[2], t + 1))}})]

\* for every cell, the least number of legal moves that lead from it at time t
\* to the exit by time MaxT, MaxT + 1 when there is no such sequence
RECURSIVE moves_to_exit(_, _)
moves_to_exit(l, t) ==
    IF t >= MaxT THEN at_horizon(l) ELSE step_back(l, t, moves_to_exit(l, t + 1))

\* the heuristic of (c, t) against its successors and against left[c], the
\* least number of moves from (c, t) to the exit
heuristic_fits(l, c, t, left) ==
    LET p == Point(c[1], c[2], t)
    IN  /\ (p.x = l.exit.x /\ p.y = l.exit.y) => distance(l.exit, p) = 0
        /\ ~successors_panics(l, p) =>
               LET succ == successors(l, p)
               IN  \A i \in DOMAIN succ : distance(l.exit, p) <= 1 + distance(l.exit, succ[i])
        /\ left[c] <= MaxT => distance(l.exit, p) <= left[c]

\* heuristic_fits at every cell and every time from t down to 0
RECURSIVE heuristic_fits_down(_, _, _)
heuristic_fits_down(l, t, left) ==
    /\ \A c \in Cells(l) : heuristic_fits(l, c, t, left)
    /\ t > 0 => heuristic_fits_down(l, t - 1, step_back(l, t - 1, left))

\* a row of the interior that is blocked in every column at every time
blocked_row(l) ==
    \E y \in 1..(l.height - 2) : \A x \in 1..(l.width - 2) : \A t \in 0..(period(l) - 1) :
        ~validate_point(l, Point(x, y, t))

\* what the spec has to_ascii show for a tile
expected_char(tile) ==
    LET n == Cardinality(dir_bits(tile))
    IN  CASE n = 0 -> (IF tile = 0 THEN "." ELSE "#")
          [] n = 1 -> (CASE "N" \in dir_bits(tile) -> "^" [] "E" \in dir_bits(tile) -> ">"
                         [] "S" \in dir_bits(tile) -> "v" [] OTHER -> "<")
          [] n = 2 -> "2"
          [] n = 3 -> "3"
          [] OTHER -> "4"

----------------------------------------------------------------------------
(* The claims *)

\* C1: when the exit can be reached, solve returns a path from (enter.x, 0, 0)
\* to the exit whose cost is the minimum arrival time over all legal move
\* sequences, and every consecutive pair of the path is a legal move.
C1_SolveFindsShortestPath ==
    pc = "print" =>
        LET least_time == min_arrival(level)
        IN  (result.outcome = "found" \/ least_time <= MaxT) =>
                /\ result.outcome = "found"
                /\ result.cost = least_time
                /\ result.path[1] = Point(level.enter.x, 0, 0)
                /\ result.path[Len(result.path)].x = level.exit.x
                /\ result.path[Len(result.path)].y = level.exit.y
                /\ \A i \in 1..(Len(result.path) - 1) :
                       legal_move(level, result.path[i], result.path[i + 1])

C1_Witness ==
    /\ pc = "print"
    /\ result.outcome = "found"
    /\ result.cost > distance(level.enter, level.exit)
    /\ \E i \in 1..(Len(result.path) - 1) :
           result.path[i].x = result.path[i + 1].x /\ result.path[i].y = result.path[i + 1].y

\* C2: for every interior cell, future_tile at the current time has the bit of a
\* direction set iff the step-by-step simulation has a mover of that direction
\* on the cell, and has the COLLIDES bit set iff it has a direction bit set.
C2_FutureTileMatchesSimulation ==
    \A c \in Interior(level) :
        LET tile == future_tile(level, c[1], c[2], now)
        IN  /\ \A d \in Dirs :
                   (BitAnd(tile, dir_flag(d)) # 0) <=> ([x |-> c[1], y |-> c[2], d |-> d] \in sim)
            /\ (BitAnd(tile, COLLIDES_FLAG) # 0) <=> (dir_bits(tile) # {})

C2_Witness ==
    /\ now > period(level)
    /\ \E c \in Interior(level) :
           /\ Cardinality(dir_bits(future_tile(level, c[1], c[2], now))) = 2
           /\ dir_bits(get_tile(level, c[1], c[2])) = {}

\* C3: on a grid whose exit can never be reached (a row of the interior is
\* blocked at every time) solve ends and reports that there is no path.
C3_SolveReportsNoPath ==
    (pc = "print" /\ blocked_row(level)) => result.outcome = "none"

\* C4: from every passable cell of the grid, the entry and the exit included,
\* successors reads no tile outside the tile array or outside the row and
\* column it asks for, and returns only coordinates inside the grid.
C4_SuccessorsStayInGrid ==
    \A c \in Cells(level) :
        LET p == Point(c[1], c[2], now)
        IN  validate_point(level, p) =>
                /\ ~successors_panics(level, p)
                /\ \A i \in DOMAIN moves(p) :
                       \A k \in DOMAIN future_tile_reads(level, moves(p)[i].x, moves(p)[i].y, moves(p)[i].t) :
                           LET r == future_tile_reads(level, moves(p)[i].x, moves(p)[i].y, moves(p)[i].t)[k]
                           IN  r[1] < level.width /\ r[2] < level.height
                /\ \A i \in DOMAIN successors(level, p) :
                       successors(level, p)[i].x < level.width
                       /\ successors(level, p)[i].y < level.height

\* C5: future_tile of every cell is the same a period lcm(width-2, height-2)
\* later, and on the outer ring it is the stored flags at every time.
C5_FutureTilePeriodic ==
    \A c \in Cells(level) :
        /\ future_tile(level, c[1], c[2], now) = future_tile(level, c[1], c[2], now + period(level))
        /\ on_border(level, c[1], c[2]) =>
               future_tile(level, c[1], c[2], now) = get_tile(level, c[1], c[2])

C5_Witness ==
    /\ now > 0
    /\ period(level) > 1
    /\ \E c \in Interior(level) :
           future_tile(level, c[1], c[2], now) # future_tile(level, c[1], c[2], now - 1)

\* C6: every cell of a rendered frame shows '.' for no flag, the mover's symbol
\* for one direction flag, and the count of direction flags for two and more.
C6_RenderShowsOverlapCount ==
    frame # <<>> =>
        \A c \in Cells(level) :
            frame[c[2] * (level.width + 1) + c[1] + 1]
                = expected_char(future_tile(level, c[1], c[2], now))

\* C7: the frame of time 0, parsed again, is a grid of the same width, height,
\* entry and exit whose flags are those the grid was parsed with.
C7_InitialFrameRoundTrips ==
    (now = 0 /\ reparsed # NoLevel) =>
        /\ reparsed.width = level.width
        /\ reparsed.height = level.height
        /\ reparsed.enter = level.enter
        /\ reparsed.exit = level.exit
        /\ reparsed.tiles = level.tiles

\* C8: a returned path starts at (enter.x, enter.y, 0), its i-th point has
\* t = i, its cost is its length less one and the t of its last point, and the
\* i-th frame print_solution shows is the grid at the time of the i-th point.
C8_PathTimesAreIndices ==
    (pc = "print" /\ result.outcome = "found") =>
        /\ result.path[1] = Point(level.enter.x, level.enter.y, 0)
        /\ \A i \in DOMAIN result.path : result.path[i].t = i - 1
        /\ result.cost = Len(result.path) - 1
        /\ result.cost = result.path[Len(result.path)].t
        /\ now > 0 =>
               LET point == result.path[now]
               IN  frame = [to_ascii(at(level, point.t)) EXCEPT
                               ![point.y * (level.width + 1) + point.x + 1] = "E"]

C8_Witness ==
    /\ pc = "print"
    /\ result.outcome = "found"
    /\ now = Len(result.path)
    /\ result.cost > distance(level.enter, level.exit)

\* C9: the distance to the exit is 0 on the exit, is at most 1 more than the
\* distance of any successor, and is at most the number of moves of any legal
\* move sequence that reaches the exit.
C9_HeuristicConsistentAdmissible ==
    pc = "start" => heuristic_fits_down(level, MaxT, at_horizon(level))

C9_Witness ==
    /\ pc = "start"
    /\ \E c \in Interior(level) :
           LET left == moves_to_exit(level, 1)[c]
               p == Point(c[1], c[2], 1)
           IN  /\ left <= MaxT
               /\ left > distance(level.exit, p)
               /\ \E i \in DOMAIN successors(level, p) :
                      distance(level.exit, successors(level, p)[i]) < distance(level.exit, p)

\* C10: a cell whose stored flags are those of a wall is impassable at every
\* time, on the outer ring and in the interior.
C10_WallsAlwaysBlock ==
    \A c \in Cells(level) :
        get_tile(level, c[1], c[2]) = COLLIDES_FLAG
            => ~validate_point(level, Point(c[1], c[2], now))

====
